---- MODULE Spec2Model ----
(***************************************************************************)
(* Inventory ledger of app.py: three sheets (Productos, Ventas, Compras)   *)
(* and the Streamlit handlers that read, modify and write them back.       *)
(*                                                                         *)
(* A text cell is a sequence of characters, so that what the sheet does    *)
(* to a text written into it can be computed.  Product names, categories   *)
(* and presentations are drawn from texts the sheet stores verbatim and    *)
(* are plain strings.                                                      *)
(***************************************************************************)
EXTENDS Integers, Sequences, FiniteSets, TLC

\* ------------------------------------------------------------------ bounds
MaxProductos == 2
MaxProductosSesiones == 1
MaxFilasDashboard == 3
MaxMovimientos == 1
MaxStockInicial == 1
MaxCantidad == 2
MaxStock == 2

\* ------------------------------------------------------------------ inputs
Digitos == {"0", "1"}
IdsEntrada == {<<>>, <<"P">>, <<"0", "1">>}
NombresEntrada == {"", "A", "B"}
CategoriasEntrada == {"", "Cat"}
PresentacionesEntrada == {"", "Caja"}
Sesiones == {1, 2}

VARIABLES
  Productos,              \* sheet "Productos": sequence of product rows
  Ventas,                 \* sheet "Ventas": sequence of movement rows
  Compras,                \* sheet "Compras": sequence of movement rows
  msg,                    \* per session: the last st.success/st.error/st.warning
  pc,                     \* per session: position inside the running script
  df_productos,           \* per session: the DataFrame loaded from "Productos"
  producto_seleccionado,  \* per session: the selectbox value
  cantidad,               \* per session: the number_input value
  df_log,                 \* per session: df_ventas_final / df_compras_final / df_actualizado
  inicial,                \* history: the Productos sheet when the sessions start
  solapado,               \* history: two script runs have overlapped
  df_dash,                \* Dashboard: the Stock column of the loaded DataFrame
  kpi                     \* Dashboard: outcome of the KPI computation

vars == <<Productos, Ventas, Compras, msg, pc, df_productos,
          producto_seleccionado, cantidad, df_log, inicial, solapado,
          df_dash, kpi>>

sesion == <<pc, df_productos, producto_seleccionado, cantidad, df_log>>
dashboard == <<df_dash, kpi>>

\* ------------------------------------------------------------- sheet cells
\* A cell of a text column holds a number or a text.
Numero(n) == [k |-> "num", n |-> n, t |-> <<>>]
Texto(t) == [k |-> "txt", n |-> 0, t |-> t]

EsNumero(t) == Len(t) > 0 /\ \A i \in 1..Len(t) : t[i] \in Digitos

ValorDigito(c) == IF c = "1" THEN 1 ELSE 0

RECURSIVE ValorNumeral(_)
ValorNumeral(t) ==
  IF Len(t) = 0 THEN 0
  ELSE 10 * ValorNumeral(SubSeq(t, 1, Len(t) - 1)) + ValorDigito(t[Len(t)])

\* A text written with value_input_option USER_ENTERED (the default of
\* set_with_dataframe): the sheet parses a numeral as a number.
UserEntered(t) == IF EsNumero(t) THEN Numero(ValorNumeral(t)) ELSE Texto(t)

RECURSIVE Decimal(_)
Decimal(n) ==
  LET d == IF n % 10 = 1 THEN "1" ELSE "0"
  IN IF n < 10 THEN <<d>> ELSE Append(Decimal(n \div 10), d)

\* .astype(str) of a loaded ID_Producto cell
astype_str(celda) == IF celda.k = "num" THEN Decimal(celda.n) ELSE celda.t

CeldaHoja(celda) == IF celda.k = "txt" THEN UserEntered(celda.t) ELSE celda

FilaHoja(fila) == [fila EXCEPT !.ID_Producto = CeldaHoja(fila.ID_Producto)]

Max(a, b) == IF a >= b THEN a ELSE b

\* set_with_dataframe(worksheet, df) with its default resize=False: the cells
\* of df are written from the first row on; rows below them are left alone.
set_with_dataframe(hoja, df) ==
  [i \in 1..Max(Len(hoja), Len(df)) |->
     IF i <= Len(df) THEN FilaHoja(df[i]) ELSE hoja[i]]

\* load_data(worksheets, name): every non-empty row of the sheet
load_data(hoja) == hoja

concat(df, fila) == Append(df, fila)

vacio(df) == Len(df) = 0

\* ------------------------------------------------------------------ pieces
\* st.success / st.error / st.warning of the page op
Mensaje(nivel, op) == [nivel |-> nivel, op |-> op]
SinMensaje == Mensaje("", "")

nuevo_producto(id, nombre, categoria, presentacion, stock_inicial) ==
  [ID_Producto |-> Texto(id), Nombre |-> nombre, Categoria |-> categoria,
   Presentacion |-> presentacion, Stock |-> stock_inicial]

CamposCompletos(id, nombre, categoria, presentacion) ==
  id # <<>> /\ nombre # "" /\ categoria # "" /\ presentacion # ""

IdExiste(id, df) == \E i \in 1..Len(df) : astype_str(df[i].ID_Producto) = id

lista_productos(df) == {df[i].Nombre : i \in 1..Len(df)}

Coincide(df, nombre) == {i \in 1..Len(df) : df[i].Nombre = nombre}

Primero(S) == CHOOSE i \in S : \A j \in S : i <= j

\* df_productos[df_productos["Nombre"] == producto_seleccionado].iloc[0]
producto_info(df, nombre) == df[Primero(Coincide(df, nombre))]

\* the check off by one
StockInsuficienteHolgado(cant, stock_actual) == cant > stock_actual + 1

StockInsuficiente(cant, stock_actual) == cant > stock_actual

\* the purchase's sign in the sale
nuevo_stock_venta_suma(stock_actual, cant) == stock_actual + cant

nuevo_stock_venta(stock_actual, cant) == stock_actual - cant

\* the sale's sign in the purchase
nuevo_stock_compra_resta(stock_actual, cant) == stock_actual - cant

nuevo_stock_compra(stock_actual, cant) == stock_actual + cant

\* nueva_venta / nueva_compra.  The Fecha column (datetime.now()) is left out:
\* no handler reads it back.
nuevo_movimiento(info, cant) ==
  [ID_Producto |-> info.ID_Producto, Nombre |-> info.Nombre,
   Cantidad |-> cant, Presentacion |-> info.Presentacion]

\* a mask that matches no row
asignar_stock_sin_efecto(df, nombre, nuevo_stock) == df

\* df_productos.loc[df_productos["Nombre"] == producto_seleccionado, "Stock"] = nuevo_stock
asignar_stock(df, nombre, nuevo_stock) ==
  [i \in 1..Len(df) |->
     IF df[i].Nombre = nombre THEN [df[i] EXCEPT !.Stock = nuevo_stock] ELSE df[i]]

\* --------------------------------------------- handlers, run to completion
\* "Registro de Productos": load_data and the form_nuevo_producto handler
form_nuevo_producto(hojaP, id, nombre, categoria, presentacion, stock_inicial) ==
  LET df == load_data(hojaP)
  IN IF ~CamposCompletos(id, nombre, categoria, presentacion)
       THEN [Productos |-> hojaP, msg |-> Mensaje("warning", "producto")]
     ELSE IF IdExiste(id, df)
       THEN [Productos |-> hojaP, msg |-> Mensaje("error", "producto")]
     ELSE [Productos |->
             set_with_dataframe(hojaP,
               concat(df, nuevo_producto(id, nombre, categoria, presentacion, stock_inicial))),
           msg |-> Mensaje("success", "producto")]

\* the log written before the stock check, in the order form_compra has
form_venta_log_antes(hojaP, hojaV, sel, cant) ==
  LET df == load_data(hojaP)
      info == producto_info(df, sel)
      stock_actual == info.Stock
      nuevo_stock == nuevo_stock_venta(stock_actual, cant)
      log == set_with_dataframe(hojaV,
               concat(load_data(hojaV), nuevo_movimiento(info, cant)))
  IN IF StockInsuficiente(cant, stock_actual)
       THEN [Productos |-> hojaP, Ventas |-> log, msg |-> Mensaje("error", "venta")]
       ELSE [Ventas |-> log,
             Productos |->
               set_with_dataframe(hojaP, asignar_stock(df, sel, nuevo_stock)),
             msg |-> Mensaje("success", "venta")]

\* "Registro de Ventas": load_data, the selectbox and the form_venta handler
form_venta(hojaP, hojaV, sel, cant) ==
  LET df == load_data(hojaP)
      info == producto_info(df, sel)
      stock_actual == info.Stock
      nuevo_stock == nuevo_stock_venta(stock_actual, cant)
  IN IF StockInsuficiente(cant, stock_actual)
       THEN [Productos |-> hojaP, Ventas |-> hojaV,
             msg |-> Mensaje("error", "venta")]
       ELSE [Ventas |->
               set_with_dataframe(hojaV,
                 concat(load_data(hojaV), nuevo_movimiento(info, cant))),
             Productos |->
               set_with_dataframe(hojaP, asignar_stock(df, sel, nuevo_stock)),
             msg |-> Mensaje("success", "venta")]

\* "Registro de Compras": load_data, the selectbox and the form_compra handler
form_compra(hojaP, hojaC, sel, cant) ==
  LET df == load_data(hojaP)
      info == producto_info(df, sel)
      stock_actual == info.Stock
      nuevo_stock == nuevo_stock_compra(stock_actual, cant)
  IN [Compras |->
        set_with_dataframe(hojaC,
          concat(load_data(hojaC), nuevo_movimiento(info, cant))),
      Productos |->
        set_with_dataframe(hojaP, asignar_stock(df, sel, nuevo_stock)),
      msg |-> Mensaje("success", "compra")]

\* The model stops growing at its bounds.
DentroDeCotas(hojaP, hojaV, hojaC) ==
  /\ Len(hojaP) <= MaxProductos
  /\ Len(hojaV) + Len(hojaC) <= MaxMovimientos
  /\ \A i \in 1..Len(hojaP) : hojaP[i].Stock <= MaxStock

\* the session of the single user
Usuario == CHOOSE s \in Sesiones : \A t \in Sesiones : s <= t

Init ==
  /\ Productos = <<>>
  /\ Ventas = <<>>
  /\ Compras = <<>>
  /\ msg = [s \in Sesiones |-> SinMensaje]
  /\ pc = [s \in Sesiones |-> "idle"]
  /\ df_productos = [s \in Sesiones |-> <<>>]
  /\ producto_seleccionado = [s \in Sesiones |-> ""]
  /\ cantidad = [s \in Sesiones |-> 0]
  /\ df_log = [s \in Sesiones |-> <<>>]
  /\ inicial = <<>>
  /\ solapado = FALSE
  /\ df_dash = <<>>
  /\ kpi = [estado |-> "pendiente", total_stock |-> 0, bajo_stock |-> 0]

\* stock_inicial is read only when the row is built, so it is drawn only then.
RegistroDeProductos ==
  \E id \in IdsEntrada, nombre \in NombresEntrada, categoria \in CategoriasEntrada,
     presentacion \in PresentacionesEntrada :
    LET rechazo == form_nuevo_producto(Productos, id, nombre, categoria, presentacion, 0)
    IN IF rechazo.msg.nivel # "success"
         THEN /\ msg' = [msg EXCEPT ![Usuario] = rechazo.msg]
              /\ UNCHANGED <<Productos, Ventas, Compras, sesion, inicial, solapado, dashboard>>
         ELSE \E stock_inicial \in 0..MaxStockInicial :
                LET r == form_nuevo_producto(Productos, id, nombre, categoria,
                                             presentacion, stock_inicial)
                IN /\ DentroDeCotas(r.Productos, Ventas, Compras)
                   /\ Productos' = r.Productos
                   /\ msg' = [msg EXCEPT ![Usuario] = r.msg]
                   /\ UNCHANGED <<Ventas, Compras, sesion, inicial, solapado, dashboard>>

RegistroDeVentas ==
  IF vacio(load_data(Productos))
    THEN /\ msg' = [msg EXCEPT ![Usuario] = Mensaje("warning", "venta")]
         /\ UNCHANGED <<Productos, Ventas, Compras, sesion, inicial, solapado, dashboard>>
    ELSE \E sel \in lista_productos(load_data(Productos)), cant \in 1..MaxCantidad :
           LET r == form_venta(Productos, Ventas, sel, cant)
           IN /\ DentroDeCotas(r.Productos, r.Ventas, Compras)
              /\ Productos' = r.Productos
              /\ Ventas' = r.Ventas
              /\ msg' = [msg EXCEPT ![Usuario] = r.msg]
              /\ UNCHANGED <<Compras, sesion, inicial, solapado, dashboard>>

RegistroDeCompras ==
  IF vacio(load_data(Productos))
    THEN /\ msg' = [msg EXCEPT ![Usuario] = Mensaje("warning", "compra")]
         /\ UNCHANGED <<Productos, Ventas, Compras, sesion, inicial, solapado, dashboard>>
    ELSE \E sel \in lista_productos(load_data(Productos)), cant \in 1..MaxCantidad :
           LET r == form_compra(Productos, Compras, sel, cant)
           IN /\ DentroDeCotas(r.Productos, Ventas, r.Compras)
              /\ Productos' = r.Productos
              /\ Compras' = r.Compras
              /\ msg' = [msg EXCEPT ![Usuario] = r.msg]
              /\ UNCHANGED <<Ventas, sesion, inicial, solapado, dashboard>>

Next == RegistroDeProductos \/ RegistroDeVentas \/ RegistroDeCompras

Spec == Init /\ [][Next]_vars

\* ------------------------------------------- handlers, one sheet access
\* ------------------------------------------- at a time, per session
\* The Productos sheets that registrations alone produce, k of them at most.
RECURSIVE Registradas(_)
Registradas(k) ==
  IF k = 0 THEN {<<>>}
  ELSE LET antes == Registradas(k - 1)
       IN antes \cup
          {form_nuevo_producto(t, id, nombre, categoria, presentacion, stock_inicial).Productos :
             t \in antes, id \in IdsEntrada, nombre \in NombresEntrada,
             categoria \in CategoriasEntrada, presentacion \in PresentacionesEntrada,
             stock_inicial \in 0..MaxStockInicial}

InitSesiones ==
  /\ Productos \in Registradas(MaxProductosSesiones)
  /\ inicial = Productos
  /\ Ventas = <<>>
  /\ Compras = <<>>
  /\ msg = [s \in Sesiones |-> SinMensaje]
  /\ pc = [s \in Sesiones |-> "idle"]
  /\ df_productos = [s \in Sesiones |-> <<>>]
  /\ producto_seleccionado = [s \in Sesiones |-> ""]
  /\ cantidad = [s \in Sesiones |-> 0]
  /\ df_log = [s \in Sesiones |-> <<>>]
  /\ solapado = FALSE
  /\ df_dash = <<>>
  /\ kpi = [estado |-> "pendiente", total_stock |-> 0, bajo_stock |-> 0]

EnCurso == {t \in Sesiones : pc[t] # "idle"}

OtraEnCurso(s) == \E t \in Sesiones \ {s} : pc[t] # "idle"

\* The script run of s ends: its locals are gone.
FinDeScript(s, m) ==
  /\ pc' = [pc EXCEPT ![s] = "idle"]
  /\ msg' = [msg EXCEPT ![s] = m]
  /\ df_productos' = [df_productos EXCEPT ![s] = <<>>]
  /\ producto_seleccionado' = [producto_seleccionado EXCEPT ![s] = ""]
  /\ cantidad' = [cantidad EXCEPT ![s] = 0]
  /\ df_log' = [df_log EXCEPT ![s] = <<>>]

\* Lines 149-175 (op = "venta") and 202-224 (op = "compra"): load Productos,
\* take the selection, and on a sale check the stock.
Cargar(s, op) ==
  /\ pc[s] = "idle"
  /\ LET df == load_data(Productos)
     IN IF vacio(df)
          THEN /\ msg' = [msg EXCEPT ![s] = Mensaje("warning", op)]
               /\ UNCHANGED <<Productos, Ventas, Compras, sesion, inicial, solapado, dashboard>>
          ELSE \E sel \in lista_productos(df), cant \in 1..MaxCantidad :
                 LET stock_actual == producto_info(df, sel).Stock
                 IN IF op = "venta" /\ StockInsuficiente(cant, stock_actual)
                      THEN /\ msg' = [msg EXCEPT ![s] = Mensaje("error", op)]
                           /\ UNCHANGED <<Productos, Ventas, Compras, sesion, inicial,
                                          solapado, dashboard>>
                      ELSE /\ op = "compra" => nuevo_stock_compra(stock_actual, cant) <= MaxStock
                           /\ Len(Ventas) + Len(Compras) + Cardinality(EnCurso)
                                < Cardinality(Sesiones)
                           /\ pc' = [pc EXCEPT ![s] = op \o "_leer_log"]
                           /\ msg' = [msg EXCEPT ![s] = SinMensaje]
                           /\ df_productos' = [df_productos EXCEPT ![s] = df]
                           /\ producto_seleccionado' = [producto_seleccionado EXCEPT ![s] = sel]
                           /\ cantidad' = [cantidad EXCEPT ![s] = cant]
                           /\ solapado' = (solapado \/ OtraEnCurso(s))
                           /\ UNCHANGED <<Productos, Ventas, Compras, df_log, inicial, dashboard>>

\* Lines 174-178 and 223-227: build the row, load the log, concat
LeerLog(s, op) ==
  /\ pc[s] = op \o "_leer_log"
  /\ LET info == producto_info(df_productos[s], producto_seleccionado[s])
         hoja == IF op = "venta" THEN Ventas ELSE Compras
     IN df_log' = [df_log EXCEPT ![s] =
                     concat(load_data(hoja), nuevo_movimiento(info, cantidad[s]))]
  /\ pc' = [pc EXCEPT ![s] = op \o "_escribir_log"]
  /\ UNCHANGED <<Productos, Ventas, Compras, msg, df_productos, producto_seleccionado,
                 cantidad, inicial, solapado, dashboard>>

\* Lines 179 and 228: write the log sheet
EscribirLog(s, op) ==
  /\ pc[s] = op \o "_escribir_log"
  /\ IF op = "venta"
       THEN Ventas' = set_with_dataframe(Ventas, df_log[s]) /\ UNCHANGED Compras
       ELSE Compras' = set_with_dataframe(Compras, df_log[s]) /\ UNCHANGED Ventas
  /\ pc' = [pc EXCEPT ![s] = op \o "_escribir_productos"]
  /\ UNCHANGED <<Productos, msg, df_productos, producto_seleccionado, cantidad, df_log,
                 inicial, solapado, dashboard>>

\* Lines 182-186 and 231-236: new stock, .loc assignment, write Productos
EscribirProductos(s, op) ==
  /\ pc[s] = op \o "_escribir_productos"
  /\ LET stock_actual == producto_info(df_productos[s], producto_seleccionado[s]).Stock
         nuevo_stock == IF op = "venta"
                          THEN nuevo_stock_venta(stock_actual, cantidad[s])
                          ELSE nuevo_stock_compra(stock_actual, cantidad[s])
     IN Productos' = set_with_dataframe(Productos,
                       asignar_stock(df_productos[s], producto_seleccionado[s], nuevo_stock))
  /\ FinDeScript(s, Mensaje("success", op))
  /\ UNCHANGED <<Ventas, Compras, inicial, solapado, dashboard>>

\* set_with_dataframe raises (the request to the sheet fails): the run ends there.
FallaEscritura(s, op) ==
  /\ pc[s] \in {op \o "_escribir_log", op \o "_escribir_productos"}
  /\ FinDeScript(s, Mensaje("exception", op))
  /\ UNCHANGED <<Productos, Ventas, Compras, inicial, solapado, dashboard>>

Ops == {"venta", "compra"}

NextSesiones ==
  \E s \in Sesiones, op \in Ops :
    \/ Cargar(s, op)
    \/ LeerLog(s, op)
    \/ EscribirLog(s, op)
    \/ EscribirProductos(s, op)

SpecSesiones == InitSesiones /\ [][NextSesiones]_vars

NextFalla ==
  \E op \in Ops :
    \/ Cargar(Usuario, op)
    \/ LeerLog(Usuario, op)
    \/ EscribirLog(Usuario, op)
    \/ EscribirProductos(Usuario, op)
    \/ FallaEscritura(Usuario, op)

SpecFalla == InitSesiones /\ [][NextFalla]_vars

\* ---------------------------------------------------------------- Dashboard
\* The sheet is edited by hand too: a Stock cell loads as a number, as a text
\* or, when blank, as NaN.
NaN == [k |-> "nan", n |-> 0, t |-> <<>>]

CeldasStock == {Numero(5), Numero(10), Numero(11), Texto(<<"a">>), Texto(<<"1">>), NaN}

UmbralBajoStock == 10

\* pd.to_numeric(columna) raises ValueError on a text that is no numeral
to_numeric_falla(columna) ==
  \E i \in 1..Len(columna) : columna[i].k = "txt" /\ ~EsNumero(columna[i].t)

\* one cell of pd.to_numeric(columna, errors='coerce')
to_numeric_coerce(celda) ==
  IF celda.k = "txt"
    THEN IF EsNumero(celda.t) THEN Numero(ValorNumeral(celda.t)) ELSE NaN
    ELSE celda

\* Series.sum(): NaN cells are skipped
RECURSIVE sum(_)
sum(columna) ==
  IF Len(columna) = 0 THEN 0
  ELSE LET c == to_numeric_coerce(columna[1])
       IN (IF c.k = "num" THEN c.n ELSE 0) + sum(Tail(columna))

fillna0(celda) == IF celda.k = "nan" THEN Numero(0) ELSE celda

\* lines 266-267: coerce, fillna(0), rows with Stock <= 10
productos_bajo_stock(columna) ==
  {i \in 1..Len(columna) : fillna0(to_numeric_coerce(columna[i])).n <= UmbralBajoStock}

\* lines 257-267 of the Dashboard page
KPIs(columna) ==
  IF vacio(columna)
    THEN [estado |-> "warning", total_stock |-> 0, bajo_stock |-> 0]
  ELSE IF to_numeric_falla(columna)
    THEN [estado |-> "ValueError", total_stock |-> 0, bajo_stock |-> 0]
  ELSE [estado |-> "ok", total_stock |-> sum(columna),
        bajo_stock |-> Cardinality(productos_bajo_stock(columna))]

RECURSIVE Columnas(_)
Columnas(n) ==
  IF n = 0 THEN {<<>>}
  ELSE LET antes == Columnas(n - 1)
       IN antes \cup {Append(c, x) : c \in antes, x \in CeldasStock}

InitDashboard ==
  /\ df_dash \in Columnas(MaxFilasDashboard)
  /\ kpi = [estado |-> "pendiente", total_stock |-> 0, bajo_stock |-> 0]
  /\ Productos = <<>>
  /\ inicial = <<>>
  /\ Ventas = <<>>
  /\ Compras = <<>>
  /\ msg = [s \in Sesiones |-> SinMensaje]
  /\ pc = [s \in Sesiones |-> "idle"]
  /\ df_productos = [s \in Sesiones |-> <<>>]
  /\ producto_seleccionado = [s \in Sesiones |-> ""]
  /\ cantidad = [s \in Sesiones |-> 0]
  /\ df_log = [s \in Sesiones |-> <<>>]
  /\ solapado = FALSE

Dashboard ==
  /\ kpi.estado = "pendiente"
  /\ kpi' = KPIs(df_dash)
  /\ UNCHANGED <<Productos, Ventas, Compras, msg, sesion, inicial, solapado, df_dash>>

SpecDashboard == InitDashboard /\ [][Dashboard]_vars

\* =================================================================== claims
EsPrefijo(a, b) == Len(a) <= Len(b) /\ SubSeq(b, 1, Len(a)) = a

\* the first row of tabla named nombre
PrimeraFila(tabla, nombre) ==
  CHOOSE i \in 1..Len(tabla) :
    /\ tabla[i].Nombre = nombre
    /\ \A j \in 1..(i - 1) : tabla[j].Nombre # nombre

HayFila(tabla, nombre) == \E i \in 1..Len(tabla) : tabla[i].Nombre = nombre

RECURSIVE Suma(_, _)
Suma(log, nombre) ==
  IF Len(log) = 0 THEN 0
  ELSE (IF log[1].Nombre = nombre THEN log[1].Cantidad ELSE 0) + Suma(Tail(log), nombre)

NombresUnicos(tabla) ==
  \A i, j \in 1..Len(tabla) : tabla[i].Nombre = tabla[j].Nombre => i = j

\* C1: after any sequence of registrations, sales and purchases, accepted or
\* rejected, every row of Productos has Stock >= 0.
C1_StockNoNegativo == \A i \in 1..Len(Productos) : Productos[i].Stock >= 0

\* A sale has emptied a product's stock and the next sale was rejected.
C1_Testigo ==
  /\ Len(Ventas) >= 1
  /\ msg[Usuario] = Mensaje("error", "venta")
  /\ \E i \in 1..Len(Productos) :
       Productos[i].Nombre = Ventas[1].Nombre /\ Productos[i].Stock = 0

\* What an applied movement leaves: log is log0 plus one row r that carries the
\* id, name and presentation of the selected product (the first row of its
\* name) and a quantity >= 1, and that product's stock has moved by signo * quantity.
MovimientoAplicado(log0, log1, signo) ==
  /\ Len(log1) = Len(log0) + 1
  /\ EsPrefijo(log0, log1)
  /\ LET r == log1[Len(log1)]
     IN /\ HayFila(Productos, r.Nombre)
        /\ LET i == PrimeraFila(Productos, r.Nombre)
           IN /\ r.ID_Producto = Productos[i].ID_Producto
              /\ r.Presentacion = Productos[i].Presentacion
              /\ r.Cantidad >= 1
              /\ signo = -1 => r.Cantidad <= Productos[i].Stock
              /\ Len(Productos') = Len(Productos)
              /\ Productos'[i].Stock = Productos[i].Stock + signo * r.Cantidad

C5_IdUnico ==
  \A i, j \in 1..Len(Productos) :
    Productos[i].ID_Producto = Productos[j].ID_Producto => i = j

\* C6: an applied sale or purchase changes the stock of exactly one row of
\* Productos, the first one with the selected name, and nothing else, also
\* when two products share the name.
C6_UnaSolaFila ==
  [][\A op \in Ops :
       msg'[Usuario] = Mensaje("success", op)
         => LET log == IF op = "venta" THEN Ventas' ELSE Compras'
                i == PrimeraFila(Productos, log[Len(log)].Nombre)
            IN /\ Len(Productos') = Len(Productos)
               /\ \A j \in 1..Len(Productos) :
                    IF j = i
                      THEN [Productos'[j] EXCEPT !.Stock = 0]
                             = [Productos[j] EXCEPT !.Stock = 0]
                      ELSE Productos'[j] = Productos[j]]_vars

\* C7: when a script run ends, by its last line or by a failed write, its
\* movement row is in the log sheet if and only if its stock update is in
\* Productos.
MovimientoAnotado(s) ==
  LET log == IF pc[s] \in {"venta_escribir_log", "venta_escribir_productos"}
               THEN Ventas' ELSE Compras'
      n == Len(df_log[s])
  IN Len(log) >= n /\ log[n] = df_log[s][n]

StockPersistido(s) ==
  LET i == PrimeraFila(df_productos[s], producto_seleccionado[s])
  IN Productos'[i].Stock # df_productos[s][i].Stock

C7_SinAplicacionParcial ==
  [][\A s \in Sesiones :
       (pc[s] \in {"venta_escribir_log", "venta_escribir_productos",
                   "compra_escribir_log", "compra_escribir_productos"}
        /\ pc'[s] = "idle")
         => (MovimientoAnotado(s) <=> StockPersistido(s))]_vars

\* C8: Ventas and Compras are append-only: every step leaves the sheet it had
\* as a prefix of the sheet it has, whichever session takes the step.
C8_SoloAnexar ==
  [][EsPrefijo(Ventas, Ventas') /\ EsPrefijo(Compras, Compras')]_vars

\* the sum of the Stock column, a text that is no numeral and a blank counted as 0
RECURSIVE SumaCoercionada(_)
SumaCoercionada(columna) ==
  IF Len(columna) = 0 THEN 0
  ELSE (IF columna[1].k = "num" THEN columna[1].n
        ELSE IF columna[1].k = "txt" /\ EsNumero(columna[1].t)
          THEN ValorNumeral(columna[1].t)
        ELSE 0)
       + SumaCoercionada(Tail(columna))

\* C9: for every non-empty Productos table the Dashboard computes total_stock,
\* the sum of the Stock column with every non-numeric or missing value counted
\* as 0, without failing.
C9_TotalStock ==
  (kpi.estado # "pendiente" /\ df_dash # <<>>)
    => kpi.estado = "ok" /\ kpi.total_stock = SumaCoercionada(df_dash)

Balance(i) ==
  inicial[i].Stock + Suma(Compras, inicial[i].Nombre) - Suma(Ventas, inicial[i].Nombre)

\* C10: when no two script runs have overlapped and every product has its own
\* name, the stored stock of every product is its initial stock plus the
\* purchased minus the sold quantities; with overlapping runs a lost update is
\* reachable (C10_Testigo).
C10_BalanceSecuencial ==
  (~solapado /\ EnCurso = {} /\ NombresUnicos(inicial))
    => \A i \in 1..Len(Productos) : Productos[i].Stock = Balance(i)

\* Lost update: a sale and a purchase of the same product have both reported
\* success, both rows are in their logs, and the stored stock is not the balance.
C10_Testigo ==
  /\ solapado
  /\ EnCurso = {}
  /\ NombresUnicos(inicial)
  /\ \E s, t \in Sesiones :
       msg[s] = Mensaje("success", "venta") /\ msg[t] = Mensaje("success", "compra")
  /\ Len(Ventas) = 1
  /\ Len(Compras) = 1
  /\ Ventas[1].Nombre = Compras[1].Nombre
  /\ \E i \in 1..Len(Productos) :
       Productos[i].Nombre = Ventas[1].Nombre /\ Productos[i].Stock # Balance(i)

====
